---- MODULE Spec2Model ----
(***************************************************************************)
(* ansible-universe: role build tool (src/universe/__init__.py).          *)
(* The model follows one role directory through successive invocations of *)
(* main(): the on-demand target provider Targets, the build callbacks     *)
(* (init_manifest, generate_readme, generate_maintask, clean, check,      *)
(* package, publish, show) and the Role accessors they read.              *)
(***************************************************************************)
EXTENDS Integers, Sequences, FiniteSets, TLC

VARIABLES
    fs,       \* the role directory: file contents and modification times
    listing,  \* the order in which the filesystem lists the task fragments
    flags,    \* --warnings of the current invocation (set of flag names)
    status,   \* "idle" | "touched" | "running" | "done" | "failed"
    cache,    \* Targets._cache and the targets of the dist sub-graph: id -> target
    log,      \* build callbacks invoked in this invocation, in order
    hit,      \* a requested key was found in Targets._cache in this invocation
    error,    \* message of the exception that ended the invocation, "" if none
    argv,     \* the TARGETS of this invocation handled so far
    total,    \* requests handled over all invocations
    out       \* what the last applied accessor returned / what show printed

vars == <<fs, listing, flags, status, cache, log, hit, error, argv, total, out>>

----------------------------------------------------------------------------
(* Python values *)

None == "None"
PyTrue == "True"
EmptyDict == [k \in {} |-> None]

Get(d, k, default) == IF k \in DOMAIN d THEN d[k] ELSE default

\* the first exception raised, "" where nothing raises
OrErr(first, second) == IF first # "" THEN first ELSE second

Range(f) == {f[i] : i \in DOMAIN f}

RECURSIVE SelectSeqBy(_, _)
SelectSeqBy(s, S) ==
    IF s = <<>> THEN <<>>
    ELSE IF Head(s) \in S THEN <<Head(s)>> \o SelectSeqBy(Tail(s), S)
    ELSE SelectSeqBy(Tail(s), S)

----------------------------------------------------------------------------
(* paths of the role directory *)

RoleName == "foo"

meta_path == "meta/main.yml"
defaults_path == "defaults/main.yml"
vars_path == "vars/main.yml"
tasks_path == "tasks/main.yml"
readme_path == "README.md"
report_path == ".build/warnings.txt"

Fragments == {"a.yml", "b.yml"}
FragPath(name) == "tasks/" \o name
UserFile == "scripts/notes.txt"
\* a file matching ".*.hmap"
HmapFile == ".deps.hmap"

ArchivePath(version) == ".build/" \o RoleName \o "-" \o version \o ".tgz"

BuildPaths == {report_path} \cup {ArchivePath(v) : v \in {"0.0.1", "42", "1.0"}}
FragPaths == {FragPath(n) : n \in Fragments}
Paths == {meta_path, defaults_path, vars_path, tasks_path, readme_path,
          UserFile, HmapFile} \cup FragPaths \cup BuildPaths

\* os.path.dirname / os.path.basename on the paths above
TopDir(p) ==
    CASE p \in {meta_path} -> "meta"
      [] p \in {defaults_path} -> "defaults"
      [] p \in {vars_path} -> "vars"
      [] p \in {tasks_path} \cup FragPaths -> "tasks"
      [] p \in {UserFile} -> "scripts"
      [] p \in BuildPaths -> ".build"
      [] OTHER -> "."

Basename(p) ==
    CASE p \in FragPaths -> CHOOSE n \in Fragments : FragPath(n) = p
      [] p \in {meta_path, defaults_path, vars_path, tasks_path} -> "main.yml"
      [] p = UserFile -> "notes.txt"
      [] p = report_path -> "warnings.txt"
      [] OTHER -> p

Exists(f, p) == f.mtime[p] > 0

\* a write stamps the file with a time later than every other file's; only
\* the order of modification times is ever read, so times are kept as ranks
Rank(mt) ==
    [p \in DOMAIN mt |->
        IF mt[p] = 0 THEN 0
        ELSE Cardinality({mt[q] : q \in {r \in DOMAIN mt : mt[r] > 0 /\ mt[r] <= mt[p]}})]

Now(f) == 1 + CHOOSE x \in Range(f.mtime) : \A y \in Range(f.mtime) : y <= x

Stamp(f, p) == [f EXCEPT !.mtime = Rank([f.mtime EXCEPT ![p] = Now(f)])]

Unlink(f, S) == [f EXCEPT !.mtime = Rank([p \in Paths |-> IF p \in S THEN 0 ELSE f.mtime[p]])]

----------------------------------------------------------------------------
(* class Role *)

get_manifest_err(f) == IF ~Exists(f, meta_path) THEN "missing role manifest" ELSE ""

get_manifest(f) == f.manifest

version_err(f) ==
    OrErr(get_manifest_err(f),
          IF "version" \notin DOMAIN get_manifest(f)
          THEN "missing 'version' attribute in manifest" ELSE "")

version(f) == get_manifest(f)["version"]

galaxy_info_err(f) ==
    OrErr(get_manifest_err(f),
          IF "galaxy_info" \notin DOMAIN get_manifest(f)
          THEN "missing 'galaxy_info' attribute in manifest" ELSE "")

galaxy_info(f) == get_manifest(f)["galaxy_info"]

author_err(f) ==
    OrErr(galaxy_info_err(f),
          IF "author" \notin DOMAIN Get(get_manifest(f), "galaxy_info", EmptyDict)
          THEN "missing 'author' attribute in manifest" ELSE "")

author(f) == galaxy_info(f)["author"]

\* the default is "%s_" % self.name.lower().replace("-", "_")
prefix(f) == Get(get_manifest(f), "prefix", "foo_")

\* the bare except turns every failure of galaxy_info into this one Error
platforms_err(f) ==
    IF galaxy_info_err(f) # "" THEN "missing platforms attribute in manifest" ELSE ""

platforms(f) == Get(galaxy_info(f), "platforms", <<>>)

description_err(f) ==
    OrErr(galaxy_info_err(f),
          IF "description" \notin DOMAIN Get(get_manifest(f), "galaxy_info", EmptyDict)
          THEN "missing 'description' attribute in manifest" ELSE "")

description(f) == galaxy_info(f)["description"]

include_when(f) == Get(get_manifest(f), "include_when", EmptyDict)

usage_complement(f) == Get(get_manifest(f), "usage_complement", None)

maintenance_complement(f) == Get(get_manifest(f), "maintenance_complement", None)

\* unmarshall(path) or {}: a missing or empty file reads as the empty dict
defaults_doc(f) == IF Exists(f, defaults_path) THEN f.defaults ELSE EmptyDict

vars_doc(f) == IF Exists(f, vars_path) THEN f.vars ELSE EmptyDict

get_variables_err(f) ==
    OrErr(IF DOMAIN defaults_doc(f) \cap DOMAIN vars_doc(f) # {} THEN "variable set twice in vars/ and defaults/" ELSE "",
          get_manifest_err(f))

FileEntry(value, type) == [description |-> None, value |-> value, type |-> type]

\* a description that replaces the entry of the key
ReplacedEntry(entry, text) == [description |-> text, value |-> None, type |-> None]

DescribedEntry(entry, text) == [entry EXCEPT !.description = text]

get_variables(f) ==
    LET d == defaults_doc(f)
        v == vars_doc(f)
        m == Get(get_manifest(f), "variables", EmptyDict)
        res == [k \in DOMAIN d \cup DOMAIN v |->
                    IF k \in DOMAIN d THEN FileEntry(d[k], "default")
                    ELSE FileEntry(v[k], "var")]
    IN [k \in DOMAIN res \cup DOMAIN m |->
            IF k \in DOMAIN res
            THEN IF k \in DOMAIN m THEN DescribedEntry(res[k], m[k]) ELSE res[k]
            ELSE [description |-> m[k], value |-> None, type |-> None]]

is_legacy(f) ==
    /\ Exists(f, tasks_path)
    /\ \E i \in DOMAIN f.maintask :
          "fail" \notin DOMAIN f.maintask[i] /\ "include" \notin DOMAIN f.maintask[i]

----------------------------------------------------------------------------
(* build callbacks *)

\* the fixed document init_manifest marshalls
DefaultManifest ==
    [galaxy_info |-> [min_ansible_version |-> "1.8.4",
                      description |-> None,
                      platforms |-> <<>>,
                      license |-> "MIT",
                      author |-> None],
     variables |-> EmptyDict,
     dependencies |-> <<>>,
     include_when |-> EmptyDict,
     version |-> "0.0.1",
     usage_complement |-> "Optional. Indicate additional usage instructions.",
     maintenance_complement |-> "Optional. Indicate additional maintenance instructions."]

\* a manifest written with another version
init_manifest_unversioned(f) ==
    Stamp([f EXCEPT !.manifest = [DefaultManifest EXCEPT !.version = None]], meta_path)

init_manifest(f) == Stamp([f EXCEPT !.manifest = DefaultManifest], meta_path)

\* the keyword arguments of render() are evaluated in source order
generate_readme_err(f) ==
    OrErr(get_manifest_err(f), OrErr(description_err(f), OrErr(platforms_err(f),
          OrErr(get_variables_err(f), version_err(f)))))

\* {{ x or "..." }}: None and the empty string render as the replacement
OrElse(x, y) == IF x \in {None, ""} THEN y ELSE x

\* the rendered text, by the values the template interpolates
ReadmeText(f) ==
    [description |-> OrElse(description(f), "(No description yet.)"),
     version |-> version(f),
     platforms |-> [i \in DOMAIN platforms(f) |-> platforms(f)[i].name],
     variables |-> get_variables(f),
     usage_complement |-> OrElse(usage_complement(f), ""),
     maintenance_complement |-> OrElse(maintenance_complement(f), "")]

generate_readme(f) == Stamp([f EXCEPT !.readme = <<ReadmeText(f)>>], readme_path)

GuardName == "Assert the target platform is supported"

RECURSIVE ListRepr(_)
ListRepr(names) ==
    IF names = <<>> THEN ""
    ELSE "'" \o Head(names) \o "'" \o (IF Len(names) > 1 THEN ", " ELSE "") \o ListRepr(Tail(names))

PlatformGuard(pfs) ==
    [name |-> GuardName,
     fail |-> [msg |-> "unsupported platform -- please contact the role maintainer for support"],
     when |-> "ansible_distribution not in [" \o ListRepr([i \in DOMAIN pfs |-> pfs[i].name]) \o "]"]

IncludeTask(f, name) ==
    [name |-> "Taskfile " \o name \o " is included",
     include |-> name,
     when |-> Get(include_when(f), name, PyTrue)]

\* glob.glob("tasks/*.yml") minus tasks/main.yml: the fragments that exist,
\* in the order the filesystem lists them (glob does not sort)
GlobFragments(f, order) == SelectSeqBy(order, {n \in Fragments : Exists(f, FragPath(n))})

SkipsGuard(pfs, task) == pfs # <<>> /\ "fail" \in DOMAIN task /\ task.name = GuardName

RECURSIVE CopyTasks(_, _)
CopyTasks(pfs, tasks) ==
    IF tasks = <<>> THEN <<>>
    ELSE IF SkipsGuard(pfs, Head(tasks)) THEN CopyTasks(pfs, Tail(tasks))
    ELSE <<Head(tasks)>> \o CopyTasks(pfs, Tail(tasks))

generate_maintask_err(f) == platforms_err(f)

MainTasks(f, order) ==
    LET pfs == platforms(f)
        head == IF pfs # <<>> THEN <<PlatformGuard(pfs)>> ELSE <<>>
        frags == GlobFragments(f, order)
    IN IF is_legacy(f)
       THEN head \o CopyTasks(pfs, f.maintask)
       ELSE head \o [i \in DOMAIN frags |-> IncludeTask(f, frags[i])]

generate_maintask(f, order) == Stamp([f EXCEPT !.maintask = MainTasks(f, order)], tasks_path)

\* clean without the test of is_legacy
CleanGeneratedAlways(f) == {readme_path, tasks_path}

CleanGenerated(f) == IF is_legacy(f) THEN {readme_path} ELSE {readme_path, tasks_path}

CleanRemoves(f) ==
    {p \in Paths : Exists(f, p) /\ (p \in BuildPaths \/ p = HmapFile \/ p \in CleanGenerated(f))}

\* the content of a removed file is gone with it
Forget(f, S) ==
    [f EXCEPT !.readme = IF readme_path \in S THEN <<>> ELSE @,
              !.maintask = IF tasks_path \in S THEN <<>> ELSE @,
              !.report = IF report_path \in S THEN <<>> ELSE @]

clean(f) == Unlink(Forget(f, CleanRemoves(f)), CleanRemoves(f))

----------------------------------------------------------------------------
(* rule registry: one MANIFEST per rule module *)

copy_has_owner ==
    [name |-> "copy_has_owner", flag |-> "owner", type |-> "task",
     message |-> "missing 'owner' attribute, the file will be owned by the varying current user"]

manifest_has_author ==
    [name |-> "manifest_has_author", flag |-> "manifest", type |-> "role",
     message |-> "missing author attribute, please specify the role author"]

manifest_has_license ==
    [name |-> "manifest_has_license", flag |-> "manifest", type |-> "role",
     message |-> "missing license attribute"]

manifest_has_platforms ==
    [name |-> "manifest_has_platforms", flag |-> "manifest", type |-> "role",
     message |-> "missing platforms attribute"]

manifest_has_version ==
    [name |-> "manifest_has_version", flag |-> "manifest", type |-> "role",
     message |-> "missing version attribute"]

subdir_is_defined ==
    [name |-> "subdir_is_defined", flag |-> "layout", type |-> "subdir",
     message |-> "undefined role sub-directory"]

syntax_is_ok ==
    [name |-> "syntax_is_ok", flag |-> "syntax", type |-> "role",
     message |-> "syntax error"]

task_has_name ==
    [name |-> "task_has_name", type |-> "task",
     message |-> "missing task name"]

task_has_no_remote_user ==
    [name |-> "task_has_no_remote_user", type |-> "task",
     message |-> "do not set a remote_user for a task, use sudo_*"]

\* this module's MANIFEST holds a single key, "check_task"
template_has_owner ==
    [name |-> "template_has_owner", check_task |-> "check"]

variable_is_documented ==
    [name |-> "variable_is_documented", flag |-> "documentation", type |-> "variable",
     message |-> "undocumented variable"]

variable_is_prefixed ==
    [name |-> "variable_is_prefixed", flag |-> "naming", type |-> "variable",
     message |-> "unexpected variable prefix (you can change the expected prefix in the role manifest)"]

MANIFESTS ==
    <<copy_has_owner, manifest_has_author, manifest_has_license, manifest_has_platforms,
      manifest_has_version, subdir_is_defined, syntax_is_ok, task_has_name,
      task_has_no_remote_user, template_has_owner, variable_is_documented,
      variable_is_prefixed>>

DEFINED == {"defaults", "files", "handlers", "meta", "tasks", "templates", "vars", "library"}

\* manifest.get("flag", manifest["name"])
RuleFlag(m) == Get(m, "flag", m.name)

\* str.startswith on the variable names and prefixes of the model
StartsWith(name, pfx) ==
    \/ pfx = ""
    \/ name = pfx
    \/ <<name, pfx>> \in {<<"foo_port", "foo_">>, <<"foo_user", "foo_">>}

AttributeError(attr) == "AttributeError: 'Role' object has no attribute '" \o attr \o "'"

\* manifest["predicate"](object, helpers): "pass", "fail" or the exception raised
Predicate(m, obj, f) ==
    CASE m.name = "copy_has_owner" ->
            IF "copy" \notin DOMAIN obj \/ "owner" \in DOMAIN obj.copy THEN "pass" ELSE "fail"
      [] m.name = "manifest_has_author" -> AttributeError("manifest")
      [] m.name = "manifest_has_license" ->
            IF "license" \in DOMAIN Get(get_manifest(f), "galaxy_info", EmptyDict) THEN "pass" ELSE "fail"
      [] m.name = "manifest_has_platforms" ->
            IF "platforms" \in DOMAIN Get(get_manifest(f), "galaxy_info", EmptyDict) THEN "pass" ELSE "fail"
      [] m.name = "manifest_has_version" ->
            IF "version" \in DOMAIN get_manifest(f) THEN "pass" ELSE "fail"
      [] m.name = "subdir_is_defined" -> IF obj \in DEFINED THEN "pass" ELSE "fail"
      [] m.name = "syntax_is_ok" -> AttributeError("path")
      [] m.name = "task_has_name" -> IF "name" \in DOMAIN obj THEN "pass" ELSE "fail"
      [] m.name = "task_has_no_remote_user" ->
            IF "remote_user" \notin DOMAIN obj THEN "pass" ELSE "fail"
      [] m.name = "variable_is_documented" ->
            IF get_variables(f)[obj].description # None THEN "pass" ELSE "fail"
      [] m.name = "variable_is_prefixed" ->
            IF StartsWith(obj, prefix(f)) THEN "pass" ELSE "fail"

----------------------------------------------------------------------------
(* check *)

Put(d, k, v) == [x \in DOMAIN d \cup {k} |-> IF x = k THEN v ELSE d[x]]

\* "task '%s[%s]'" % (filename, task.get("name", "#%i" % (idx + 1)))
TaskKey(filename, task, idx) ==
    "task '" \o filename \o "[" \o Get(task, "name", "#" \o ToString(idx)) \o "]'"

\* an entry of a task list that is a plain string, not a mapping: task.get
\* raises AttributeError on it
ScalarEntry == [scalar |-> "restart nginx"]

\* the content of a file yaml.load raises on
Unparsable == <<[yaml_error |-> "mapping values are not allowed here"]>>

\* the loop over the entries of one file inside the try block: an entry is
\* stored as soon as it is read, and the bare except ends the loop at the
\* first entry that raises, keeping what was stored before
RECURSIVE AddTasks(_, _, _, _)
AddTasks(objects, filename, tasks, idx) ==
    IF idx > Len(tasks) THEN objects
    ELSE IF "scalar" \in DOMAIN tasks[idx] THEN objects
    ELSE AddTasks(Put(objects, TaskKey(filename, tasks[idx], idx), tasks[idx]),
                  filename, tasks, idx + 1)

\* unmarshall(path, default = []) or [], an exception of which is swallowed
\* by the same except
FileTasks(f, filename) ==
    IF filename = "main.yml" THEN f.maintask
    ELSE IF f.frags[filename] = Unparsable THEN <<>>
    ELSE f.frags[filename]

\* the .yml files os.walk finds under tasks/
TaskFiles(f, order) ==
    GlobFragments(f, order) \o (IF Exists(f, tasks_path) THEN <<"main.yml">> ELSE <<>>)

RECURSIVE AddFiles(_, _, _)
AddFiles(objects, f, filenames) ==
    IF filenames = <<>> THEN objects
    ELSE AddFiles(AddTasks(objects, Head(filenames), FileTasks(f, Head(filenames)), 1),
                  f, Tail(filenames))

get_tasks(f, order) == AddFiles(EmptyDict, f, TaskFiles(f, order))

IsSelected(m, fl) == "all" \in fl \/ RuleFlag(m) \in fl

RECURSIVE SelectManifests(_, _)
SelectManifests(ms, fl) ==
    IF ms = <<>> THEN <<>>
    ELSE IF IsSelected(Head(ms), fl) THEN <<Head(ms)>> \o SelectManifests(Tail(ms), fl)
    ELSE SelectManifests(Tail(ms), fl)

\* filter(lambda manifest: manifest["type"] == kind, manifests)
RECURSIVE OfType(_, _)
OfType(ms, kind) ==
    IF ms = <<>> THEN <<>>
    ELSE IF Head(ms).type = kind THEN <<Head(ms)>> \o OfType(Tail(ms), kind)
    ELSE OfType(Tail(ms), kind)

OfTypeErr(ms) ==
    IF \E i \in DOMAIN ms : "type" \notin DOMAIN ms[i] THEN "KeyError: 'type'" ELSE ""

\* the order in which a dict hands out its keys
RECURSIVE KeyOrder(_)
KeyOrder(S) ==
    IF S = {} THEN <<>>
    ELSE LET x == CHOOSE y \in S : TRUE IN <<x>> \o KeyOrder(S \ {x})

RECURSIVE EvalRules(_, _, _, _)
EvalRules(key, obj, ms, f) ==
    IF ms = <<>> THEN <<>>
    ELSE <<[source |-> key, rule |-> Head(ms).name, flag |-> RuleFlag(Head(ms)),
            message |-> Head(ms).message, result |-> Predicate(Head(ms), obj, f)]>>
         \o EvalRules(key, obj, Tail(ms), f)

\* check_objects: every object against every manifest, objects first
RECURSIVE EvalObjects(_, _, _, _)
EvalObjects(keys, objects, ms, f) ==
    IF keys = <<>> THEN <<>>
    ELSE EvalRules(Head(keys), objects[Head(keys)], ms, f)
         \o EvalObjects(Tail(keys), objects, ms, f)

check_objects(objects, ms, f) == EvalObjects(KeyOrder(DOMAIN objects), objects, ms, f)

RoleObjects == [k \in {"role '" \o RoleName \o "'"} |-> RoleName]

VariableObjects(f) ==
    LET ks == DOMAIN get_variables(f)
    IN [k \in {"variable '" \o v \o "'" : v \in ks} |->
            CHOOSE v \in ks : k = "variable '" \o v \o "'"]

\* os.listdir("."): the directories that hold a file, hidden ones left out
Subdirs(f) == {TopDir(p) : p \in {q \in Paths : Exists(f, q)}} \ {".", ".build"}

SubdirObjects(f) ==
    [k \in {"subdir '" \o b \o "'" : b \in Subdirs(f)} |->
        CHOOSE b \in Subdirs(f) : k = "subdir '" \o b \o "'"]

Raised(evals) == {i \in DOMAIN evals : evals[i].result \notin {"pass", "fail"}}

FirstRaised(evals) == CHOOSE i \in Raised(evals) : \A j \in Raised(evals) : i <= j

\* an exception ends check: nothing is evaluated after it
UpToRaise(evals) ==
    IF Raised(evals) = {} THEN evals ELSE SubSeq(evals, 1, FirstRaised(evals))

RaisedErr(evals) ==
    IF Raised(evals) = {} THEN "" ELSE evals[FirstRaised(evals)].result

\* the four passes of check over the selected manifests ms
AllEvals(ms, f, order) ==
    check_objects(RoleObjects, OfType(ms, "role"), f)
    \o (IF get_variables_err(f) # "" THEN <<>>
        ELSE check_objects(VariableObjects(f), OfType(ms, "variable"), f)
             \o check_objects(SubdirObjects(f), OfType(ms, "subdir"), f)
             \o check_objects(get_tasks(f, order), OfType(ms, "task"), f))

SelectedEvals(ms, f, order) ==
    IF OfTypeErr(ms) # "" THEN <<>> ELSE UpToRaise(AllEvals(ms, f, order))

\* the evaluations check makes, pass after pass, up to the first exception
CheckEvals(f, fl, order) == SelectedEvals(SelectManifests(MANIFESTS, fl), f, order)

\* get_variables raises once the role pass is through
SelectedErr(ms, evals, f) ==
    OrErr(OfTypeErr(ms), OrErr(RaisedErr(evals), get_variables_err(f)))

check_err(f, fl, order) ==
    SelectedErr(SelectManifests(MANIFESTS, fl), CheckEvals(f, fl, order), f)

RECURSIVE Warnings(_)
Warnings(evals) ==
    IF evals = <<>> THEN <<>>
    ELSE IF Head(evals).result = "fail"
         THEN <<[message |-> Head(evals).message, source |-> Head(evals).source,
                 flag |-> Head(evals).flag]>> \o Warnings(Tail(evals))
         ELSE Warnings(Tail(evals))

check(f, fl, order) ==
    Stamp([f EXCEPT !.report = Warnings(CheckEvals(f, fl, order))], report_path)

----------------------------------------------------------------------------
(* package, publish, show *)

\* fnmatch.fnmatch(name, pattern) on the names of the role directory: ".?*"
\* is the default of --exclude, the others are patterns a user may add
Matches(name, pattern) ==
    CASE pattern = ".?*" -> name \in {HmapFile, ".build"}
      [] pattern = ".build" -> name = ".build"
      [] pattern = "*.hmap" -> name = HmapFile
      [] pattern = "s*" -> name = "scripts"
      [] OTHER -> FALSE

\* any(fnmatch.fnmatch(name, pattern) for pattern in exclude)
IsExcluded(name, exclude) == \E i \in DOMAIN exclude : Matches(name, exclude[i])

\* `excluded` lists a directory once for every pattern it matches, and
\* dirnames.remove raises ValueError when it is asked to remove a directory
\* a second time
get_source_paths_err(f, exclude) ==
    IF \E d \in {TopDir(p) : p \in {q \in Paths : Exists(f, q)}} \ {"."} :
            Cardinality({i \in DOMAIN exclude : Matches(d, exclude[i])}) > 1
    THEN "ValueError: list.remove(x): x not in list"
    ELSE ""

\* get_source_paths: the walk leaves out the excluded directories with all
\* they hold, and the excluded files of the directories it enters
get_source_paths(f, exclude) ==
    {p \in Paths : /\ Exists(f, p)
                   /\ ~IsExcluded(TopDir(p), exclude)
                   /\ ~IsExcluded(Basename(p), exclude)}

package(f, path) == Stamp(f, path)

show_err(f) ==
    OrErr(author_err(f), OrErr(version_err(f), OrErr(platforms_err(f),
          OrErr(get_variables_err(f), description_err(f)))))

show(f) ==
    [name |-> RoleName, author |-> author(f), version |-> version(f),
     platforms |-> platforms(f), variables |-> get_variables(f),
     description |-> description(f), usage_complement |-> usage_complement(f),
     maintenance_complement |-> maintenance_complement(f)]

----------------------------------------------------------------------------
(* build targets *)

\* fckit.BuildTarget(path, sources, phony, on_build); on_build is the name of
\* the callback, "None" for a source file, "True" for dist
Target(path, phony, sources, on_build) ==
    [path |-> path, phony |-> phony, sources |-> sources, on_build |-> on_build,
     built |-> FALSE]

\* path.startswith(os.path.dirname(...)) on the paths of the model
is_in_defaults_path(p) == TopDir(p) = "defaults"
is_in_tasks_path(p) == TopDir(p) = "tasks"
is_in_vars_path(p) == TopDir(p) = "vars"

\* README.md made independent of the manifest
ReadmeSourcesNoManifest(index) ==
    {p \in index : is_in_defaults_path(p) \/ is_in_vars_path(p)}

ReadmeSources(index) ==
    {p \in index : is_in_defaults_path(p) \/ is_in_vars_path(p) \/ p = meta_path}

MaintaskSources(index) ==
    {p \in index : (is_in_tasks_path(p) /\ p # tasks_path) \/ p = meta_path}

\* get_dist_sources: id -> target, for the indexed files and the two derived
\* files; each derived target replaces the file target of the same path
get_dist_sources(f) ==
    LET index == get_source_paths(f, <<".?*">>)
    IN [p \in index \cup {readme_path, tasks_path} |->
          IF p = readme_path
          THEN Target(p, FALSE, KeyOrder(ReadmeSources(index)), "generate_readme")
          ELSE IF p = tasks_path
          THEN Target(p, FALSE, KeyOrder(MaintaskSources(index \cup {readme_path})),
                      "generate_maintask")
          ELSE Target(p, FALSE, <<>>, "None")]

\* targets.values(): the dict hands the targets out in an order of its own
DistOrder(ids, readmeFirst) ==
    KeyOrder(ids \ {readme_path, tasks_path})
    \o (IF readmeFirst THEN <<readme_path, tasks_path>> ELSE <<tasks_path, readme_path>>)

Keys == {"show", "init", "clean", "dist", "check", "package", "publish"}

\* a provider that makes a new target at every lookup
NeverCached(c, key) == FALSE

InCache(c, key) == key \in DOMAIN c

Merge(c, d) == [k \in DOMAIN c \cup DOMAIN d |-> IF k \in DOMAIN d THEN d[k] ELSE c[k]]

Raise(s, msg) == [s EXCEPT !.err = msg]

\* package left without its source check
PhaseSourcesUnchained(key) ==
    CASE key = "check" -> <<"dist">>
      [] key = "publish" -> <<"package">>
      [] OTHER -> <<>>

\* sources of the targets Targets.__getitem__ chains together
PhaseSources(key) ==
    CASE key = "check" -> <<"dist">>
      [] key = "package" -> <<"check">>
      [] key = "publish" -> <<"package">>
      [] OTHER -> <<>>

\* self._cache[key] = fckit.BuildTarget(...), unless a source raised
AddTarget(s, key, target) ==
    IF s.err # "" THEN s ELSE [s EXCEPT !.cache = Put(@, key, target)]

AddDist(s, key, subs, readmeFirst) ==
    [s EXCEPT !.cache = Put(Merge(@, subs), key,
        Target(".build/dist", FALSE, DistOrder(DOMAIN subs, readmeFirst), "True"))]

\* Targets.__getitem__: s.cache holds Targets._cache, and under their paths
\* the targets get_dist_sources made for dist
RECURSIVE GetItem(_, _, _)
GetItem(s, key, e) ==
    IF s.err # "" THEN s
    ELSE IF InCache(s.cache, key) THEN [s EXCEPT !.hit = TRUE]
    ELSE CASE key = "show" ->
                AddTarget(s, key, Target(key, TRUE, PhaseSources(key), "show"))
           [] key = "init" ->
                AddTarget(s, key, Target(meta_path, FALSE, PhaseSources(key), "init_manifest"))
           [] key = "clean" ->
                AddTarget(s, key, Target(key, TRUE, PhaseSources(key), "clean"))
           [] key = "dist" ->
                AddDist(s, key, get_dist_sources(s.fs), e.readmeFirst)
           [] key = "check" ->
                AddTarget(GetItem(s, "dist", e), key,
                          Target(report_path, FALSE, PhaseSources(key), "check"))
           [] key = "package" ->
                IF version_err(s.fs) # "" THEN Raise(s, version_err(s.fs))
                ELSE AddTarget(GetItem(s, "check", e), key,
                               Target(ArchivePath(version(s.fs)), FALSE, PhaseSources(key), "package"))
           [] key = "publish" ->
                AddTarget(GetItem(s, "package", e), key,
                          Target("publish", TRUE, PhaseSources(key), "publish"))
           [] OTHER -> Raise(s, "unknown target")

----------------------------------------------------------------------------
(* fckit.BuildTarget.build *)

\* the callback of target t, with what it raises
RunErr(s, t, e) ==
    CASE t.on_build = "show" -> show_err(s.fs)
      [] t.on_build = "generate_readme" -> generate_readme_err(s.fs)
      [] t.on_build = "generate_maintask" -> generate_maintask_err(s.fs)
      [] t.on_build = "check" -> check_err(s.fs, e.flags, e.order)
      [] t.on_build = "publish" -> IF e.curlOk THEN "" ELSE "command failed: curl"
      [] OTHER -> ""

RunFs(s, t, e) ==
    CASE t.on_build = "init_manifest" -> init_manifest(s.fs)
      [] t.on_build = "clean" -> clean(s.fs)
      [] t.on_build = "generate_readme" -> generate_readme(s.fs)
      [] t.on_build = "generate_maintask" -> generate_maintask(s.fs, e.order)
      [] t.on_build = "check" -> check(s.fs, e.flags, e.order)
      [] t.on_build = "package" -> package(s.fs, t.path)
      [] OTHER -> s.fs

\* the callback is entered, then it raises or it returns
Outcome(s, t, e, err) ==
    IF err # "" THEN Raise(s, err)
    ELSE [s EXCEPT !.fs = RunFs(s, t, e),
                   !.out = IF t.on_build = "show" THEN <<show(s.fs)>> ELSE @]

Run(s, t, e) == Outcome([s EXCEPT !.log = Append(@, t.on_build)], t, e, RunErr(s, t, e))

\* a source that is rebuilt whenever it is requested makes its target stale
AlwaysRebuilt(t) == t.phony \/ t.on_build = "True"

Newer(f, src, t) == f.mtime[src.path] > f.mtime[t.path]

IsStale(s, t) ==
    \/ ~Exists(s.fs, t.path)
    \/ \E i \in DOMAIN t.sources :
          AlwaysRebuilt(s.cache[t.sources[i]]) \/ Newer(s.fs, s.cache[t.sources[i]], t)

\* the target itself, once its sources are built
BuildSelf(s, t, e) ==
    IF t.on_build = "None"
    THEN IF Exists(s.fs, t.path) THEN s ELSE Raise(s, "missing source")
    ELSE IF t.on_build = "True" THEN s
    ELSE IF t.phony \/ IsStale(s, t) THEN Run(s, t, e)
    ELSE s

MarkBuilt(s, id) == IF s.err # "" THEN s ELSE [s EXCEPT !.cache[id].built = TRUE]

AfterSources(s, id, e) == IF s.err # "" THEN s ELSE MarkBuilt(BuildSelf(s, s.cache[id], e), id)

RECURSIVE Build(_, _, _)
RECURSIVE BuildAll(_, _, _)

Build(s, id, e) ==
    IF s.err # "" \/ s.cache[id].built THEN s
    ELSE AfterSources(BuildAll(s, s.cache[id].sources, e), id, e)

BuildAll(s, ids, e) ==
    IF ids = <<>> \/ s.err # "" THEN s
    ELSE BuildAll(Build(s, Head(ids), e), Tail(ids), e)

----------------------------------------------------------------------------
(* the role directories an invocation may find *)

\* the manifest src/test.py marshalls
TestManifest == [version |-> "42", galaxy_info |-> [author |-> "John Doe"]]

FullManifest ==
    [version |-> "1.0",
     galaxy_info |-> [description |-> "web server", license |-> "MIT",
                      platforms |-> <<[name |-> "Debian", versions |-> <<"all">>]>>],
     variables |-> [foo_port |-> "listening port"],
     include_when |-> [k \in {"a.yml"} |-> "ansible_os_family == 'Debian'"]]

FragContent ==
    [n \in Fragments |->
        IF n = "a.yml"
        THEN <<[name |-> "install configuration", copy |-> [src |-> "conf", dest |-> "/etc/conf"]]>>
        ELSE <<[name |-> "restart", command |-> "service restart", remote_user |-> "root"]>>]

HandTask == [name |-> "install package", apt |-> "name=nginx"]
OldGuard == PlatformGuard(<<[name |-> "Ubuntu"]>>)

InitMainTasks == {<<HandTask>>, <<OldGuard, HandTask>>, <<[name |-> "Taskfile a.yml is included", include |-> "a.yml", when |-> PyTrue]>>}

FragListings == {<<>>, <<"a.yml", "b.yml">>, <<"b.yml", "a.yml">>}


Touchable == {meta_path, defaults_path, FragPath("a.yml")}

\* a role directory: the manifest, defaults/ and vars/, the fragments, a
\* tasks/main.yml written by hand, and the user's own README.md and files
InitFs(hasManifest, m, hasVars, frags, hasTasks, mt, hasUser) ==
    [manifest |-> IF hasManifest THEN m ELSE EmptyDict,
     defaults |-> IF hasVars THEN [foo_port |-> "80"] ELSE EmptyDict,
     vars |-> IF hasVars THEN [user |-> "www"] ELSE EmptyDict,
     frags |-> FragContent,
     maintask |-> IF hasTasks THEN mt ELSE <<>>,
     readme |-> IF hasUser THEN <<[description |-> "hand-written"]>> ELSE <<>>,
     report |-> <<>>,
     mtime |-> [p \in Paths |->
        IF \/ p = meta_path /\ hasManifest
           \/ p \in {defaults_path, vars_path} /\ hasVars
           \/ p \in {FragPath(n) : n \in frags}
           \/ p = tasks_path /\ hasTasks
           \/ p \in {readme_path, UserFile, HmapFile} /\ hasUser
        THEN 1 ELSE 0]]

EmptyDir == InitFs(FALSE, EmptyDict, FALSE, {}, FALSE, <<>>, FALSE)

----------------------------------------------------------------------------
(* main *)

MaxRequests == 2
MaxDistRequests == 3

InitRun ==
    /\ flags = {}
    /\ status = "idle"
    /\ cache = EmptyDict
    /\ log = <<>>
    /\ hit = FALSE
    /\ error = ""
    /\ argv = <<>>
    /\ total = 0
    /\ out = <<>>

\* an empty directory, the role of src/test.py, an authored role with and
\* without a tasks/main.yml written by hand
Init ==
    /\ listing \in FragListings
    /\ \/ listing = <<>> /\ fs = EmptyDir
       \/ listing = <<>> /\ fs = InitFs(TRUE, TestManifest, FALSE, {}, FALSE, <<>>, FALSE)
       \/ listing # <<>> /\ \E hasTasks \in BOOLEAN :
            fs = InitFs(TRUE, FullManifest, TRUE, Range(listing), hasTasks,
                        <<OldGuard, HandTask>>, TRUE)
    /\ InitRun

\* every combination of manifest, fragments and hand-written files
InitDist ==
    /\ listing \in FragListings
    /\ \E hasManifest \in BOOLEAN, m \in {TestManifest, FullManifest, DefaultManifest}, hasTasks \in BOOLEAN,
          mt \in InitMainTasks, hasUser \in BOOLEAN :
            fs = InitFs(hasManifest, m, hasUser, Range(listing), hasTasks, mt, hasUser)
    /\ InitRun

\* docopt and the construction of Role and Targets
StartWith(fl) ==
    /\ status # "running"
    /\ status' = "running"
    /\ flags' = fl
    /\ cache' = EmptyDict
    /\ log' = <<>>
    /\ hit' = FALSE
    /\ error' = ""
    /\ argv' = <<>>
    /\ out' = <<>>
    /\ UNCHANGED <<fs, listing, total>>

Start == \E fl \in {{"all"}, {"manifest"}, {"layout", "owner", "naming"}} : StartWith(fl)

\* the outcomes the environment leaves open: the order of targets.values()
\* where dist is built, the exit status of curl where publish runs
OrderChoices(key) == IF key \in {"dist", "check", "package", "publish"} THEN BOOLEAN ELSE {TRUE}
CurlChoices(key) == IF key = "publish" THEN BOOLEAN ELSE {TRUE}

Env(readmeFirst, curlOk) ==
    [flags |-> flags, order |-> listing, readmeFirst |-> readmeFirst, curlOk |-> curlOk]

Lookup(key, e) ==
    GetItem([fs |-> fs, cache |-> cache, log |-> log, hit |-> hit, out |-> out, err |-> ""],
            key, e)

\* targets[key].build()
BuildIt(s, key, e) == IF s.err # "" THEN s ELSE Build(s, key, e)

Requested(key, e) == BuildIt(Lookup(key, e), key, e)

\* one turn of the loop over TARGETS; an exception ends the invocation
\* (Request), set against a loop that goes on to the next target after an
\* exception (RequestKeepsGoing)
RequestKeepsGoing(key) ==
    /\ status = "running"
    /\ argv' = Append(argv, key)
    /\ total' = total + 1
    /\ \E readmeFirst \in OrderChoices(key), curlOk \in CurlChoices(key) :
      \E s \in {Requested(key, Env(readmeFirst, curlOk))} :
           /\ fs' = s.fs
           /\ cache' = s.cache
           /\ log' = s.log
           /\ hit' = s.hit
           /\ out' = s.out
           /\ error' = s.err
           /\ status' = "running"
    /\ UNCHANGED <<listing, flags>>

Request(key) ==
    /\ status = "running"
    /\ argv' = Append(argv, key)
    /\ total' = total + 1
    /\ \E readmeFirst \in OrderChoices(key), curlOk \in CurlChoices(key) :
      \E s \in {Requested(key, Env(readmeFirst, curlOk))} :
           /\ fs' = s.fs
           /\ cache' = s.cache
           /\ log' = s.log
           /\ hit' = s.hit
           /\ out' = s.out
           /\ error' = s.err
           /\ status' = IF s.err # "" THEN "failed" ELSE "running"
    /\ UNCHANGED <<listing, flags>>

\* after the loop: targets["check"] is looked up and its report printed
Finish ==
    /\ status = "running"
    /\ argv # <<>>
    /\ hit' = Lookup("check", Env(TRUE, TRUE)).hit
    /\ cache' = EmptyDict
    /\ out' = IF Exists(fs, report_path) THEN <<fs.report>> ELSE out
    /\ status' = "done"
    /\ UNCHANGED <<fs, listing, flags, log, error, argv, total>>

\* between invocations the user saves a source file again
Touch(p) ==
    /\ status \notin {"running", "touched"}
    /\ p \in Touchable
    /\ Exists(fs, p)
    /\ fs' = Stamp(fs, p)
    /\ status' = "touched"
    /\ UNCHANGED <<listing, flags, cache, log, hit, error, argv, total, out>>

Next ==
    \/ total < MaxRequests /\ Start
    \/ \E key \in Keys \cup {"bogus"} : total < MaxRequests /\ Request(key)
    \/ Finish
    \/ \E p \in Touchable : total < MaxRequests /\ Touch(p)

Spec == Init /\ [][Next]_vars

\* invocations of dist and clean with the default --warnings, on every
\* role directory of InitDist
NextDist ==
    \/ total < MaxDistRequests /\ StartWith({"all"})
    \/ \E key \in {"dist", "clean"} : total < MaxDistRequests /\ Request(key)
    \/ Finish
    \/ \E p \in Touchable : total < MaxDistRequests /\ Touch(p)

SpecDist == InitDist /\ [][NextDist]_vars

\* Role.get_variables() applied to every combination of defaults/main.yml,
\* vars/main.yml and the manifest's variables map
VarKeys == {"foo_port", "user"}

Docs(keys, values) == UNION {[S -> values] : S \in SUBSET keys}

VarManifests ==
    {[version |-> "1.0", galaxy_info |-> [author |-> "John Doe"]]}
    \cup {[version |-> "1.0", variables |-> m] : m \in Docs(VarKeys \cup {"foo_user"}, {"documented"})}

VarsFs(hasManifest, m, d, v) ==
    [EmptyDir EXCEPT !.manifest = IF hasManifest THEN m ELSE EmptyDict,
                     !.defaults = d,
                     !.vars = v,
                     !.mtime = [p \in Paths |->
                        IF \/ p = meta_path /\ hasManifest
                           \/ p = defaults_path /\ d # EmptyDict
                           \/ p = vars_path /\ v # EmptyDict
                        THEN 1 ELSE 0]]

InitVars ==
    /\ listing = <<>>
    /\ \E hasManifest \in BOOLEAN, m \in VarManifests,
          d \in Docs(VarKeys, {"80", "www"}), v \in Docs(VarKeys, {"80", "www"}) :
            fs = VarsFs(hasManifest, m, d, v)
    /\ InitRun

\* role.get_variables()
GetVariables ==
    /\ status = "idle"
    /\ error' = get_variables_err(fs)
    /\ out' = IF get_variables_err(fs) = "" THEN <<get_variables(fs)>> ELSE <<>>
    /\ status' = "done"
    /\ UNCHANGED <<fs, listing, flags, cache, log, hit, argv, total>>

SpecVars == InitVars /\ [][GetVariables]_vars

----------------------------------------------------------------------------
(* get_tasks and the task pass of check over every content of the fragments *)

MaxTasks == 2

TaskEntries ==
    {FragContent["a.yml"][1], FragContent["b.yml"][1],
     [name |-> "restart", service |-> "name=nginx state=restarted"],
     [command |-> "true"], ScalarEntry}

InitTasks ==
    /\ listing \in FragListings \ {<<>>}
    /\ \E hasTasks \in BOOLEAN,
          docs \in [Fragments ->
                    {Unparsable} \cup UNION {[1..n -> TaskEntries] : n \in 0..MaxTasks}] :
            fs = [InitFs(TRUE, TestManifest, FALSE, Fragments, hasTasks, <<HandTask>>, FALSE)
                    EXCEPT !.frags = docs]
    /\ InitRun

\* check_objects(get_tasks(role), the manifests of type "task") under
\* -W owner,task_has_no_remote_user
GetTasks ==
    /\ status = "idle"
    /\ flags' = {"owner", "task_has_no_remote_user"}
    /\ \E objects \in {get_tasks(fs, listing)} :
            out' = <<[objects |-> objects,
                      checked |-> check_objects(objects,
                                    OfType(SelectManifests(MANIFESTS, flags'), "task"), fs)]>>
    /\ status' = "done"
    /\ UNCHANGED <<fs, listing, cache, log, hit, error, argv, total>>

SpecTasks == InitTasks /\ [][GetTasks]_vars

----------------------------------------------------------------------------
(* get_source_paths over every list of exclude patterns *)

MaxPatterns == 2

\* role directories with and without hidden files, a scripts directory and
\* a .build directory left by an earlier check
InitPaths ==
    /\ listing \in FragListings
    /\ \E hasUser \in BOOLEAN, hasBuild \in BOOLEAN :
            fs = [InitFs(TRUE, TestManifest, hasUser, Range(listing), FALSE, <<>>, hasUser)
                    EXCEPT !.mtime[report_path] = IF hasBuild THEN 2 ELSE 0]
    /\ InitRun

\* get_source_paths(role, exclude) for the patterns given with --exclude
GetSourcePaths ==
    /\ status = "idle"
    /\ \E n \in 0..MaxPatterns :
         \E exclude \in [1..n -> {".?*", ".build", "*.hmap", "s*"}] :
            /\ error' = get_source_paths_err(fs, exclude)
            /\ out' = <<[exclude |-> exclude,
                         paths |-> IF get_source_paths_err(fs, exclude) = ""
                                   THEN get_source_paths(fs, exclude) ELSE {}]>>
    /\ status' = "done"
    /\ UNCHANGED <<fs, listing, flags, cache, log, hit, argv, total>>

SpecPaths == InitPaths /\ [][GetSourcePaths]_vars

----------------------------------------------------------------------------
(* properties *)

CountIn(l, cb) == Len(SelectSeq(l, LAMBDA x : x = cb))

\* every cb in the log comes after an a
Before(a, cb) ==
    \A j \in DOMAIN log : log[j] = cb => \E i \in 1..(j - 1) : log[i] = a

Built(key) == key \in DOMAIN cache /\ cache[key].built

InRun == status \in {"running", "failed"}

\* this step handles the request of key / is the first request of key in
\* its invocation
Requests(key) == status = "running" /\ argv' = Append(argv, key)
FirstRequest(key) == Requests(key) /\ key \notin Range(argv)

\* this step invokes the callback cb
Invokes(cb) == CountIn(log', cb) > CountIn(log, cb)

Independent == {"show", "init", "clean"}

CallbackOf(key) == IF key = "init" THEN "init_manifest" ELSE key

Callbacks ==
    {"show", "init_manifest", "clean", "generate_readme", "generate_maintask",
     "check", "package", "publish"}

\* C1: in every invocation the action of check runs only once dist is built,
\* the action of package only once check is built and has run, the action of
\* publish only once package is built and has run; show, init and clean have
\* no sources, and an invocation that requests only these creates no other
\* target and runs no other action.
C1_LifecycleOrder ==
    InRun =>
        /\ "check" \in Range(log) => Built("dist")
        /\ "package" \in Range(log) => Built("check") /\ Before("check", "package")
        /\ "publish" \in Range(log) => Built("package") /\ Before("package", "publish")
        /\ \A key \in Independent : key \in DOMAIN cache => cache[key].sources = <<>>
        /\ Range(argv) \subseteq Independent =>
              /\ Range(log) \subseteq {CallbackOf(key) : key \in Range(argv)}
              /\ DOMAIN cache \subseteq Range(argv)

\* publish requested alone: check, package and publish have run in this order
C1_PublishRan ==
    /\ status = "running"
    /\ argv = <<"publish">>
    /\ error = ""
    /\ SelectSeq(log, LAMBDA x : x \in {"check", "package", "publish"})
          = <<"check", "package", "publish">>

\* C2: within one invocation no build action runs twice and every phase
\* requested so far is built, whatever the list of requested phases.
C2_BuiltOnce ==
    /\ \A cb \in Callbacks : CountIn(log, cb) <= 1
    /\ status = "running" => \A key \in Range(argv) : Built(key)

\* check package: package finds check in the cache, check has run once
C2_CheckReused ==
    /\ status = "running"
    /\ argv = <<"check", "package">>
    /\ hit
    /\ CountIn(log, "check") = 1
    /\ CountIn(log, "package") = 1

\* C3: from an empty role directory, after the run `init package` with the
\* default --warnings, meta/main.yml, README.md, tasks/main.yml and
\* .build/foo-0.0.1.tgz all exist.  (init has written the manifest in this
\* first invocation, so the directory held none before.)
C3_InitPackage ==
    (/\ argv = <<"init", "package">>
     /\ total = 2
     /\ flags = {"all"}
     /\ "init_manifest" \in Range(log))
        => /\ error = ""
           /\ \A p \in {meta_path, readme_path, tasks_path, ArchivePath("0.0.1")} :
                 Exists(fs, p)

\* the run ends in check, before package is reached
C3_PackageNotReached ==
    /\ argv = <<"init", "package">>
    /\ total = 2
    /\ flags = {"all"}
    /\ log = <<"init_manifest", "generate_readme", "generate_maintask", "check">>
    /\ error = "KeyError: 'type'"
    /\ ~Exists(fs, ArchivePath("0.0.1"))

\* an entry that is neither a fail entry nor an include entry
HasHandEntry(f) ==
    /\ f.mtime[tasks_path] > 0
    /\ \E i \in DOMAIN f.maintask :
          "fail" \notin DOMAIN f.maintask[i] /\ "include" \notin DOMAIN f.maintask[i]

\* file p is there after the step, with the content it had
Kept(p) ==
    /\ fs'.mtime[p] > 0
    /\ p = meta_path => fs'.manifest = fs.manifest
    /\ p = defaults_path => fs'.defaults = fs.defaults
    /\ p = vars_path => fs'.vars = fs.vars
    /\ p = tasks_path => fs'.maintask = fs.maintask
    /\ p = readme_path => fs'.readme = fs.readme
    /\ p \in FragPaths => fs'.frags = fs.frags

\* C4 as stated: clean, run on a directory no generator has written to yet,
\* leaves every file outside .build that is no .*.hmap file in place with its
\* content, whatever tasks/main.yml holds.
C4_CleanKeepsHandAuthored ==
    [][(total = 0 /\ Requests("clean")) =>
          \A p \in Paths \ (BuildPaths \cup {HmapFile}) : fs.mtime[p] > 0 => Kept(p)]_vars

\* C4 amended: clean removes README.md, the files of .build, the .*.hmap
\* files, and tasks/main.yml unless it holds an entry that is neither a fail
\* nor an include entry; every other file, a tasks/main.yml with such an entry
\* included, stays in place with its content.
C4_CleanRemovesDerived ==
    [][FirstRequest("clean") =>
          /\ error' = ""
          /\ \A p \in Paths :
                IF \/ p \in BuildPaths \cup {HmapFile, readme_path}
                   \/ p = tasks_path /\ ~HasHandEntry(fs)
                THEN fs'.mtime[p] = 0
                ELSE IF fs.mtime[p] > 0 THEN Kept(p) ELSE fs'.mtime[p] = 0]_vars

\* clean has kept a tasks/main.yml with a hand-written task and the user's
\* file, and removed README.md
C4_LegacyKept ==
    /\ status = "running"
    /\ argv = <<"clean">>
    /\ HasHandEntry(fs)
    /\ HandTask \in Range(fs.maintask)
    /\ fs.mtime[UserFile] > 0
    /\ fs.mtime[readme_path] = 0

FileDoc(f, p, doc) == IF f.mtime[p] > 0 THEN doc ELSE EmptyDict

\* what get_variables is to return for defaults d, vars v and descriptions m
MergedAs(r, d, v, m) ==
    /\ DOMAIN r = DOMAIN d \cup DOMAIN v \cup DOMAIN m
    /\ \A k \in DOMAIN d : r[k].value = d[k] /\ r[k].type = "default"
    /\ \A k \in DOMAIN v : r[k].value = v[k] /\ r[k].type = "var"
    /\ \A k \in DOMAIN m : r[k].description = m[k]
    /\ \A k \in DOMAIN r \ DOMAIN m : r[k].description = None
    /\ \A k \in DOMAIN m \ (DOMAIN d \cup DOMAIN v) : r[k].value = None /\ r[k].type = None

SetTwice == "variable set twice in vars/ and defaults/"

\* C5: get_variables fails with the "set twice" error exactly when a key is in
\* both vars/main.yml and defaults/main.yml; where it returns, every key of
\* defaults or vars has the value and kind of its file, a description of the
\* manifest sets the description of its key only, and a described key of
\* neither file has a description and no value.
C5_VariablesMerge ==
    status = "done" =>
        /\ error = SetTwice <=>
              DOMAIN FileDoc(fs, defaults_path, fs.defaults)
                 \cap DOMAIN FileDoc(fs, vars_path, fs.vars) # {}
        /\ error = "" =>
              /\ Len(out) = 1
              /\ MergedAs(out[1], FileDoc(fs, defaults_path, fs.defaults),
                          FileDoc(fs, vars_path, fs.vars),
                          Get(fs.manifest, "variables", EmptyDict))

\* a default that is described, a var, and a described key of neither file
C5_DescribedDefault ==
    /\ status = "done"
    /\ error = ""
    /\ Len(out) = 1
    /\ "foo_port" \in DOMAIN fs.defaults
    /\ "user" \in DOMAIN fs.vars
    /\ {"foo_port", "foo_user"} \subseteq DOMAIN Get(fs.manifest, "variables", EmptyDict)
    /\ out[1]["foo_port"].value = fs.defaults["foo_port"]
    /\ out[1]["foo_user"].value = None

IsInjectedGuard(task) == "fail" \in DOMAIN task /\ task.name = GuardName

Declared(f) == Get(f.manifest["galaxy_info"], "platforms", <<>>)

FreshGuard(f) == IF Declared(f) # <<>> THEN <<PlatformGuard(Declared(f))>> ELSE <<>>

\* C6: on a legacy role generate_maintask writes the fresh platform guard, if
\* platforms are declared, followed by every entry of tasks/main.yml that is
\* no injected platform guard, in the order they had.
C6_LegacyPreserved ==
    [][(/\ Invokes("generate_maintask")
        /\ HasHandEntry(fs)
        /\ fs.mtime[meta_path] > 0
        /\ "galaxy_info" \in DOMAIN fs.manifest) =>
          fs'.maintask
             = FreshGuard(fs) \o SelectSeq(fs.maintask, LAMBDA t : ~IsInjectedGuard(t))]_vars

\* no platform is declared and the guard injected earlier is still there
C6_StaleGuardKept ==
    /\ status = "running"
    /\ "generate_maintask" \in Range(log)
    /\ fs.mtime[meta_path] > 0
    /\ "galaxy_info" \in DOMAIN fs.manifest
    /\ Declared(fs) = <<>>
    /\ fs.maintask = <<OldGuard, HandTask>>

\* the fragment names in lexicographic order
SortedFragments == <<"a.yml", "b.yml">>

Included(tasks) ==
    [i \in DOMAIN SelectSeq(tasks, LAMBDA t : "include" \in DOMAIN t) |->
        SelectSeq(tasks, LAMBDA t : "include" \in DOMAIN t)[i].include]

\* C7: what dist generates is what generating again from the resulting
\* directory gives (README.md and tasks/main.yml, legacy or not), and on a
\* role that is not legacy the include entries name the fragments in
\* lexicographic order, one each.
C7_DistDeterministic ==
    [][(Requests("dist") /\ error' = "") =>
          /\ Invokes("generate_readme") => fs'.readme = <<ReadmeText(fs')>>
          /\ Invokes("generate_maintask") => fs'.maintask = MainTasks(fs', listing)
          /\ (Invokes("generate_maintask") /\ ~HasHandEntry(fs)) =>
                Included(fs'.maintask)
                   = SelectSeq(SortedFragments, LAMBDA n : fs.mtime[FragPath(n)] > 0)]_vars

\* the includes of a generated tasks/main.yml in the order of the listing
C7_ListingOrder ==
    /\ status = "running"
    /\ "generate_maintask" \in Range(log)
    /\ Included(fs.maintask) = <<"b.yml", "a.yml">>

LacksAuthor(f) ==
    /\ f.mtime[meta_path] > 0
    /\ "galaxy_info" \in DOMAIN f.manifest
    /\ "author" \notin DOMAIN f.manifest["galaxy_info"]

AuthorWarnings(f) ==
    {i \in DOMAIN f.report : f.report[i].message = manifest_has_author.message}

\* C8: once check has run, it has written a report of warnings of enabled flags only,
\* and for a manifest without galaxy_info.author it holds the author warning
\* exactly when "manifest" or "all" is enabled.
C8_AuthorWarning ==
    (InRun /\ argv = <<"check">> /\ "check" \in Range(log)) =>
        /\ error = ""
        /\ fs.mtime[report_path] > 0
        /\ \A i \in DOMAIN fs.report : "all" \in flags \/ fs.report[i].flag \in flags
        /\ LacksAuthor(fs) =>
              (AuthorWarnings(fs) # {} <=> ("all" \in flags \/ "manifest" \in flags))

\* check, run with the flag manifest on a manifest without author, ends in an
\* exception of the predicate
C8_PredicateRaises ==
    /\ status = "failed"
    /\ flags = {"manifest"}
    /\ LacksAuthor(fs)
    /\ log[Len(log)] = "check"
    /\ error = AttributeError("manifest")

\* the fixed fields of a fresh manifest
IsFreshManifest(m) ==
    /\ DOMAIN m = {"galaxy_info", "variables", "dependencies", "include_when", "version",
                   "usage_complement", "maintenance_complement"}
    /\ m.version = "0.0.1"
    /\ m.variables = EmptyDict
    /\ m.dependencies = <<>>
    /\ m.include_when = EmptyDict
    /\ "license" \in DOMAIN m.galaxy_info
    /\ m.galaxy_info.license = "MIT"

\* C9 as stated: after init the manifest holds the fixed default fields,
\* whether or not the directory held a manifest.
C9_InitAlwaysFresh ==
    [][FirstRequest("init") => fs'.mtime[meta_path] > 0 /\ IsFreshManifest(fs'.manifest)]_vars

\* C9 amended: on a directory without manifest, init leaves a manifest with
\* the fixed default fields and version "0.0.1"; on a directory with a
\* manifest, init changes nothing.
C9_InitFreshIfMissing ==
    [][FirstRequest("init") =>
          /\ error' = ""
          /\ IF fs.mtime[meta_path] = 0
             THEN fs'.mtime[meta_path] > 0 /\ IsFreshManifest(fs'.manifest)
             ELSE fs' = fs /\ ~Invokes("init_manifest")]_vars

\* init has written the manifest of an empty directory
C9_ManifestWritten ==
    /\ status = "running"
    /\ argv = <<"init">>
    /\ log = <<"init_manifest">>
    /\ IsFreshManifest(fs.manifest)
    /\ fs.mtime[meta_path] > 0

\* the sources of the two derived files, as the claim names them
DerivedFiles == {readme_path, tasks_path}

GeneratorOf(p) == IF p = readme_path THEN "generate_readme" ELSE "generate_maintask"

SourceFiles(f, p) ==
    {q \in Paths : f.mtime[q] > 0 /\
        IF p = readme_path THEN q \in {defaults_path, vars_path, meta_path}
        ELSE q \in FragPaths \cup {meta_path}}

UpToDate(f, p) == f.mtime[p] > 0 /\ \A q \in SourceFiles(f, p) : f.mtime[q] < f.mtime[p]

Outdated(f, p) == f.mtime[p] > 0 /\ \E q \in SourceFiles(f, p) : f.mtime[q] > f.mtime[p]

TasksScanned == status = "done"
KeysOf(n) == {TaskKey(n, t, i) : t \in TaskEntries \ {ScalarEntry}, i \in 1..MaxTasks}
IsMalformed(doc) == doc = Unparsable \/ \E i \in DOMAIN doc : "scalar" \in DOMAIN doc[i]
EntryKeys(n) == {TaskKey(n, fs.frags[n][i], i) : i \in DOMAIN fs.frags[n]}
TaskRules == {"copy_has_owner", "task_has_no_remote_user"}
CheckedBy(r) == {i \in DOMAIN out[1].checked : out[1].checked[i].rule = r}

\* C11: get_tasks returns for every content of the fragment files; a
\* malformed file contributes no task object at all, and every entry of
\* every other fragment is collected and evaluated against each task rule
C11_MalformedExcluded ==
    TasksScanned =>
        /\ error = ""
        /\ \A n \in Fragments :
              IF IsMalformed(fs.frags[n])
              THEN DOMAIN out[1].objects \cap KeysOf(n) = {}
              ELSE \A k \in EntryKeys(n), r \in TaskRules :
                      \E i \in CheckedBy(r) : out[1].checked[i].source = k

\* a fragment whose second entry is no mapping has left its first entry
\* among the task objects
C11_PartialFile ==
    /\ TasksScanned
    /\ \E n \in Fragments :
          /\ Len(fs.frags[n]) = 2
          /\ "scalar" \in DOMAIN fs.frags[n][2]
          /\ TaskKey(n, fs.frags[n][1], 1) \in DOMAIN out[1].objects

\* the number of task entries in the files get_tasks scans
RECURSIVE TotalEntries(_)
TotalEntries(filenames) ==
    IF filenames = <<>> THEN 0
    ELSE Len(FileTasks(fs, Head(filenames))) + TotalEntries(Tail(filenames))

\* C12: when every fragment file is well formed, each enabled task rule is
\* evaluated on as many task objects as the files under tasks/ hold entries,
\* also when two entries of a file share a name
C12_AllEntriesChecked ==
    (TasksScanned /\ \A n \in Fragments : ~IsMalformed(fs.frags[n])) =>
        \A r \in TaskRules :
            Cardinality(CheckedBy(r)) = TotalEntries(TaskFiles(fs, listing))

\* two entries of a well-formed fragment carry the same name and a single
\* task object stands for both
C12_KeyCollision ==
    /\ TasksScanned
    /\ \A n \in Fragments : ~IsMalformed(fs.frags[n])
    /\ \E n \in Fragments :
          /\ Len(fs.frags[n]) = 2
          /\ fs.frags[n][1] # fs.frags[n][2]
          /\ Cardinality(DOMAIN out[1].objects \cap KeysOf(n)) = 1

\* the callbacks the request of key can invoke: its own and those of the
\* phases it is chained to
ChainOf(key) ==
    CASE key \in Independent -> {CallbackOf(key)}
      [] key = "dist" -> {"generate_readme", "generate_maintask"}
      [] key = "check" -> {"generate_readme", "generate_maintask", "check"}
      [] key = "package" -> {"generate_readme", "generate_maintask", "check", "package"}
      [] key = "publish" -> Callbacks \ {"show", "init_manifest", "clean"}
      [] OTHER -> {}

\* C13: the requested phases are handled one at a time in the order of the
\* command line, each running only the callbacks of its own chain after
\* those of the phases before it; an unknown phase name fails without
\* running or writing anything; a phase that fails ends the invocation with
\* a non-zero exit, after which no callback runs in that invocation; and the
\* failing step removes or rolls back no file the earlier phases left.
C13_AbortInOrder ==
    [][/\ \A key \in Keys \cup {"bogus"} : Requests(key) =>
            /\ Len(log') >= Len(log)
            /\ SubSeq(log', 1, Len(log)) = log
            /\ \A i \in (Len(log) + 1)..Len(log') : log'[i] \in ChainOf(key)
            /\ key \notin Keys => error' # "" /\ log' = log /\ fs' = fs
            /\ status' = IF error' # "" THEN "failed" ELSE "running"
            /\ error' # "" =>
                  /\ fs'.manifest = fs.manifest
                  /\ \A p \in Paths : Exists(fs, p) => Exists(fs', p)
       /\ status = "failed" =>
            /\ error # ""
            /\ log' \in {log, <<>>}
            /\ argv' \in {argv, <<>>}
            /\ status' # "done"
      ]_vars

\* init has written the manifest, the unknown phase requested after it has
\* ended the invocation, and the manifest is still there
C13_FailedAfterInit ==
    /\ status = "failed"
    /\ argv = <<"init", "bogus">>
    /\ log = <<"init_manifest">>
    /\ error # ""
    /\ Exists(fs, meta_path)

\* the directory components and the filename of a path of the role directory
Components(p) == {TopDir(p), Basename(p)} \ {"."}

\* C14: for every role directory and every list of exclude patterns,
\* get_source_paths ends without an error and returns exactly the existing
\* files no directory component and no filename of which matches a pattern,
\* also when two patterns match the same directory
C14_ExactlyUnexcluded ==
    status = "done" =>
        /\ error = ""
        /\ out[1].paths =
              {p \in Paths : /\ Exists(fs, p)
                             /\ \A c \in Components(p), i \in DOMAIN out[1].exclude :
                                    ~Matches(c, out[1].exclude[i])}

\* both patterns of the list match the directory .build, which exists, and
\* the scan has ended with an error
C14_TwoPatternsOneDir ==
    /\ status = "done"
    /\ Exists(fs, report_path)
    /\ out[1].exclude = <<".?*", ".build">>
    /\ error # ""

====
